---- MODULE Spec2Model ----
(***************************************************************************)
(* StackTransform (butterfree/core/transform/transformations/              *)
(* stack_transform.py): the pattern matcher, the column selection and the  *)
(* row expansion of transform.                                             *)
(*                                                                         *)
(* A Python str is a sequence of one-character strings: "id_*" is          *)
(* <<"i","d","_","*">>.  A dataframe is a record [columns, rows]; a row is *)
(* the sequence of its cell values, aligned with columns.                  *)
(***************************************************************************)
EXTENDS Integers, Sequences, FiniteSets, TLC

VARIABLES
  columns_names,   \* self.columns_names: the tuple of patterns
  regex_enabled,   \* self.regex_enabled
  parent,          \* self._parent: None, or the owning feature's name
  dataframe,       \* argument of the latest transform call
  result,          \* outcome of the latest transform call
  pattern,         \* argument of the latest _matches_pattern call
  column,          \* argument of the latest _matches_pattern call
  matched          \* outcome of the latest _matches_pattern call

vars == <<columns_names, regex_enabled, parent, dataframe, result,
          pattern, column, matched>>

(***************************************************************************)
(* Bounds and input pools.                                                 *)
(***************************************************************************)
MaxPatLen == 3
MaxColLen == 3
MaxPatterns == 2
MaxRows == 2

Alphabet == {"a", "b", "*", "!"}
ColAlphabet == {"a", "b"}

Strings(S, n) == UNION {[1..k -> S] : k \in 0..n}

Range(s) == {s[i] : i \in DOMAIN s}

\* Patterns an instance is built with in the transform specification (an
\* instance is built with up to MaxPatterns different ones).
PatternPool ==
  {<<"a">>, <<"b">>, <<"a", "*">>, <<"!", "a">>, <<"*">>}

\* Column names of the source tables.
ColumnPool == {<<"a">>, <<"b">>, <<"a", "b">>}

\* Names of the features an instance can be bound to; <<"a">> is also a
\* column name, <<"s">> never is.
FeatureNames == {<<"s">>, <<"a">>}

(***************************************************************************)
(* Python values.                                                          *)
(***************************************************************************)
None == <<"None">>

Return(v) == [exc |-> "", ret |-> v]
Raise(e) == [exc |-> e, ret |-> FALSE]
NotCalled == [exc |-> "not called", ret |-> FALSE]

startswith(s, prefix) ==
  /\ Len(prefix) <= Len(s)
  /\ SubSeq(s, 1, Len(prefix)) = prefix

endswith(s, suffix) ==
  /\ Len(suffix) <= Len(s)
  /\ SubSeq(s, Len(s) - Len(suffix) + 1, Len(s)) = suffix

\* str.split(sep): the segments between the occurrences of sep.
RECURSIVE split(_, _)
split(s, sep) ==
  IF \A i \in 1..Len(s) : s[i] # sep
  THEN <<s>>
  ELSE LET i == CHOOSE k \in 1..Len(s) :
                  /\ s[k] = sep
                  /\ \A j \in 1..(k - 1) : s[j] # sep
       IN <<SubSeq(s, 1, i - 1)>> \o split(SubSeq(s, i + 1, Len(s)), sep)

(***************************************************************************)
(* re.match(pattern, column) for the regular expressions that can be       *)
(* written over Alphabet: "a", "b" and "!" are literals, "*" repeats the   *)
(* preceding literal zero or more times.  A "*" with nothing to repeat, or *)
(* one that follows another "*", is a compile error (re.error).            *)
(***************************************************************************)
re_error(p) ==
  \E i \in 1..Len(p) :
    /\ p[i] = "*"
    /\ (i = 1 \/ p[i - 1] = "*")

\* The backtracking matcher: does p match at the start of c?
RECURSIVE sre_match(_, _)
sre_match(p, c) ==
  IF p = <<>> THEN TRUE
  ELSE IF Len(p) >= 2 /\ p[2] = "*"
  THEN \/ /\ c # <<>>
          /\ c[1] = p[1]
          /\ sre_match(p, Tail(c))
       \/ sre_match(Tail(Tail(p)), c)
  ELSE /\ c # <<>>
       /\ c[1] = p[1]
       /\ sre_match(Tail(p), Tail(c))

re_match(p, c) ==
  IF re_error(p) THEN Raise("re.error") ELSE Return(sre_match(p, c))

(***************************************************************************)
(* StackTransform._matches_pattern                                         *)
(***************************************************************************)
\* Variant: the suffix test uses the whole pattern instead of split[-1].
_matches_pattern_unsplit_suffix(is_regex, pat, col) ==
  IF is_regex THEN re_match(pat, col)
  ELSE LET negate == startswith(pat, <<"!">>)
           stripped == IF negate THEN Tail(pat) ELSE pat
           segments == split(stripped, "*")
           matches_pattern ==
             /\ startswith(col, segments[1])
             /\ endswith(col, stripped)
       IN Return(IF negate THEN ~matches_pattern ELSE matches_pattern)

\* Variant: the leading "!" is stripped but the result is not negated.
_matches_pattern_no_negation(is_regex, pat, col) ==
  IF is_regex THEN re_match(pat, col)
  ELSE LET negate == startswith(pat, <<"!">>)
           stripped == IF negate THEN Tail(pat) ELSE pat
           segments == split(stripped, "*")
           matches_pattern ==
             /\ startswith(col, segments[1])
             /\ endswith(col, segments[Len(segments)])
       IN Return(matches_pattern)

\* Variant: regex mode searches the pattern anywhere in the column
\* (re.search instead of re.match).
_matches_pattern_search(is_regex, pat, col) ==
  IF is_regex
  THEN IF re_error(pat) THEN Raise("re.error")
       ELSE Return(\E i \in 1..(Len(col) + 1) :
                      sre_match(pat, SubSeq(col, i, Len(col))))
  ELSE LET negate == startswith(pat, <<"!">>)
           stripped == IF negate THEN Tail(pat) ELSE pat
           segments == split(stripped, "*")
           matches_pattern ==
             /\ startswith(col, segments[1])
             /\ endswith(col, segments[Len(segments)])
       IN Return(IF negate THEN ~matches_pattern ELSE matches_pattern)

_matches_pattern(is_regex, pat, col) ==
  IF is_regex THEN re_match(pat, col)
  ELSE LET negate == startswith(pat, <<"!">>)
           stripped == IF negate THEN Tail(pat) ELSE pat
           segments == split(stripped, "*")
           matches_pattern ==
             /\ startswith(col, segments[1])
             /\ endswith(col, segments[Len(segments)])
       IN Return(IF negate THEN ~matches_pattern ELSE matches_pattern)

(***************************************************************************)
(* Dataframes (pyspark.sql.DataFrame as transform uses it).                *)
(***************************************************************************)
\* Position of column name c in the column list cols.
Index(cols, c) == CHOOSE i \in 1..Len(cols) : cols[i] = c

RECURSIVE Flatten(_)
Flatten(ss) == IF ss = <<>> THEN <<>> ELSE Head(ss) \o Flatten(Tail(ss))

\* The sequences of S of length at most n that repeat no element.
Distinct(S, n) ==
  {s \in Strings(S, n) : \A i, j \in 1..Len(s) : s[i] = s[j] => i = j}

\* Source tables: distinct column names from ColumnPool in any order; no
\* row or MaxRows rows, every cell holding a value no other cell of the
\* table holds.
ColumnLists == Distinct(ColumnPool, Cardinality(ColumnPool))

Tables ==
  {[columns |-> cs,
    rows |-> [r \in 1..n |-> [i \in 1..Len(cs) |-> 10 * r + i]]] :
     cs \in ColumnLists, n \in {0, MaxRows}}

NoTable == [columns |-> <<>>, rows |-> <<>>]

\* Variant: the array lists the stacked columns in reverse.
array_reversed(df, cols, row) ==
  [k \in 1..Len(cols) |-> row[Index(df.columns, cols[Len(cols) + 1 - k])]]

\* array(*columns), evaluated on one row: the row's values of cols, in order.
array(df, cols, row) ==
  [k \in 1..Len(cols) |-> row[Index(df.columns, cols[k])]]

\* dataframe.withColumn(name, explode(arr)): one output row per element of
\* the row's array.  The element is stored in the column called name: a
\* column of that name is replaced in place, otherwise the column is added
\* after the existing ones.
withColumn_explode(df, name, cols) ==
  LET exists == name \in Range(df.columns)
      put(row, v) ==
        IF exists THEN [row EXCEPT ![Index(df.columns, name)] = v]
        ELSE Append(row, v)
      exploded(row) ==
        LET arr == array(df, cols, row)
        IN [k \in 1..Len(arr) |-> put(row, arr[k])]
  IN [columns |-> IF exists THEN df.columns ELSE Append(df.columns, name),
      rows |-> Flatten([r \in 1..Len(df.rows) |-> exploded(df.rows[r])])]

(***************************************************************************)
(* The error message of transform.                                         *)
(***************************************************************************)
Quote == "'"

RECURSIVE join_quoted(_)
join_quoted(cols) ==
  IF cols = <<>> THEN <<>>
  ELSE <<Quote>> \o Head(cols) \o <<Quote>>
       \o (IF Len(cols) > 1 THEN <<",", " ">> ELSE <<>>)
       \o join_quoted(Tail(cols))

\* str(list_of_str): "['a', 'ab']".
str_list(cols) == <<"[">> \o join_quoted(cols) \o <<"]">>

\* "Columns not found, columns in df: {}".format(dataframe.columns); the
\* fixed text is kept as one element.
format_message(cols) ==
  <<"Columns not found, columns in df: ">> \o str_list(cols)

(***************************************************************************)
(* StackTransform.transform                                                *)
(***************************************************************************)
\* any(self._matches_pattern(pattern, column) for pattern in names): the
\* patterns are tried in order, the first True ends the scan, an exception
\* ends it too.
RECURSIVE any_matches(_, _, _)
any_matches(names, is_regex, col) ==
  IF names = <<>> THEN Return(FALSE)
  ELSE LET m == _matches_pattern(is_regex, Head(names), col)
       IN IF m.exc # "" THEN m
          ELSE IF m.ret THEN Return(TRUE)
          ELSE any_matches(Tail(names), is_regex, col)

\* Variant: the selection follows the patterns, not the table's columns.
RECURSIVE select_columns_by_pattern(_, _, _)
select_columns_by_pattern(names, is_regex, cols) ==
  IF names = <<>> THEN [exc |-> "", columns |-> <<>>]
  ELSE LET rest == select_columns_by_pattern(Tail(names), is_regex, cols)
           hit(c) == _matches_pattern(is_regex, Head(names), c)
       IN IF \E i \in 1..Len(cols) : hit(cols[i]).exc # ""
          THEN [exc |-> "re.error", columns |-> <<>>]
          ELSE IF rest.exc # "" THEN rest
          ELSE [exc |-> "",
                columns |->
                  SelectSeq(cols, LAMBDA c : hit(c).ret /\ c \notin Range(rest.columns))
                  \o rest.columns]

\* The list comprehension of transform: the columns of the table, in the
\* table's order, for which any_matches is True.
RECURSIVE select_columns(_, _, _)
select_columns(names, is_regex, cols) ==
  IF cols = <<>> THEN [exc |-> "", columns |-> <<>>]
  ELSE LET m == any_matches(names, is_regex, Head(cols))
       IN IF m.exc # "" THEN [exc |-> m.exc, columns |-> <<>>]
          ELSE LET rest == select_columns(names, is_regex, Tail(cols))
               IN IF rest.exc # "" THEN rest
                  ELSE [exc |-> "",
                        columns |-> (IF m.ret THEN <<Head(cols)>> ELSE <<>>)
                                    \o rest.columns]

Outcome(e, msg, tbl, cols, par) ==
  [exc |-> e, message |-> msg, table |-> tbl, columns |-> cols, parent |-> par]

NoCall == Outcome("not called", <<>>, NoTable, <<>>, None)

\* Variant: no check that the selection is non-empty.
transform_call_unchecked(names, is_regex, par, df) ==
  LET sel == select_columns(names, is_regex, df.columns)
  IN IF sel.exc # ""
     THEN Outcome(sel.exc, <<>>, NoTable, <<>>, par)
     ELSE IF par = None
     THEN Outcome("UnboundFeatureError", <<>>, NoTable, sel.columns, par)
     ELSE Outcome("", <<>>, withColumn_explode(df, par, sel.columns),
                  sel.columns, par)

\* Variant: the output name is read before the columns are selected.
transform_call_name_first(names, is_regex, par, df) ==
  LET sel == select_columns(names, is_regex, df.columns)
  IN IF par = None
     THEN Outcome("UnboundFeatureError", <<>>, NoTable, <<>>, par)
     ELSE IF sel.exc # ""
     THEN Outcome(sel.exc, <<>>, NoTable, <<>>, par)
     ELSE IF sel.columns = <<>>
     THEN Outcome("ValueError", format_message(df.columns), NoTable, <<>>, par)
     ELSE Outcome("", <<>>, withColumn_explode(df, par, sel.columns),
                  sel.columns, par)

\* What one call of transform raises or returns.
transform_call(names, is_regex, par, df) ==
  LET sel == select_columns(names, is_regex, df.columns)
  IN IF sel.exc # ""
     THEN Outcome(sel.exc, <<>>, NoTable, <<>>, par)
     ELSE IF sel.columns = <<>>
     THEN Outcome("ValueError", format_message(df.columns), NoTable, <<>>, par)
     ELSE IF par = None
     THEN Outcome("UnboundFeatureError", <<>>, NoTable, sel.columns, par)
     ELSE Outcome("", <<>>, withColumn_explode(df, par, sel.columns),
                  sel.columns, par)

(***************************************************************************)
(* The transform specification: an instance is constructed, bound to       *)
(* features and asked to transform the caller's tables.                    *)
(***************************************************************************)
\* StackTransform(*columns_names, is_regex=...)
__init__ ==
  /\ columns_names \in Distinct(PatternPool, MaxPatterns)
  /\ regex_enabled \in BOOLEAN
  /\ parent = None

Init ==
  /\ __init__
  /\ dataframe = NoTable
  /\ result = NoCall
  /\ pattern = <<>>
  /\ column = <<>>
  /\ matched = NotCalled

\* The owning feature attaches itself: self._parent = feature.
bind(name) ==
  /\ parent # name
  /\ parent' = name
  /\ UNCHANGED <<columns_names, regex_enabled, dataframe, result,
                 pattern, column, matched>>

\* Variant: a successful call keeps the selected columns in place of the
\* patterns, as a cache for later calls.
transform_caching(df) ==
  /\ dataframe' = df
  /\ result' = transform_call(columns_names, regex_enabled, parent, df)
  /\ columns_names' = IF result'.exc = "" THEN result'.columns
                      ELSE columns_names
  /\ UNCHANGED <<regex_enabled, parent, pattern, column, matched>>

\* transform(dataframe): the caller passes one of its tables.
transform(df) ==
  /\ dataframe' = df
  /\ result' = transform_call(columns_names, regex_enabled, parent, df)
  /\ UNCHANGED <<columns_names, regex_enabled, parent, pattern, column, matched>>

Next ==
  \/ \E name \in FeatureNames : bind(name)
  \/ \E df \in Tables : transform(df)

Spec == Init /\ [][Next]_vars

(***************************************************************************)
(* The matcher specification: _matches_pattern is called on an instance    *)
(* with every pattern and column name up to the bounds.                    *)
(***************************************************************************)
MatchInit ==
  /\ columns_names = <<>>
  /\ regex_enabled \in BOOLEAN
  /\ parent = None
  /\ dataframe = NoTable
  /\ result = NoCall
  /\ pattern \in Strings(Alphabet, MaxPatLen)
  /\ column \in Strings(ColAlphabet, MaxColLen)
  /\ matched = NotCalled

matches_pattern_call ==
  /\ matched = NotCalled
  /\ matched' = _matches_pattern(regex_enabled, pattern, column)
  /\ UNCHANGED <<columns_names, regex_enabled, parent, dataframe, result,
                 pattern, column>>

MatchNext == matches_pattern_call

MatchSpec == MatchInit /\ [][MatchNext]_vars

(***************************************************************************)
(* Properties of _matches_pattern, checked under MatchSpec.                *)
(***************************************************************************)
Called == matched # NotCalled

Simplified == Called /\ ~regex_enabled

HasNo(s, ch) == \A i \in 1..Len(s) : s[i] # ch

Count(s, ch) == Cardinality({i \in 1..Len(s) : s[i] = ch})

\* col = prefix + s + suffix for some string s
Surrounds(col, prefix, suffix) ==
  /\ Len(prefix) + Len(suffix) <= Len(col)
  /\ \A i \in 1..Len(prefix) : col[i] = prefix[i]
  /\ \A i \in 1..Len(suffix) : col[Len(col) - Len(suffix) + i] = suffix[i]

\* C4: in simplified mode a non-empty pattern without "*" and without "!"
\* matches a column iff the pattern equals the column name.
C4_PlainNameIsExact ==
  (/\ Simplified
   /\ pattern # <<>>
   /\ HasNo(pattern, "*")
   /\ HasNo(pattern, "!"))
  => (matched.ret <=> pattern = column)

\* C5: in simplified mode a pattern that is a literal prefix followed by one
\* trailing "*" matches exactly the columns that start with the prefix.
C5_TrailingWildcard ==
  (/\ Simplified
   /\ pattern # <<>>
   /\ pattern[Len(pattern)] = "*"
   /\ Count(pattern, "*") = 1
   /\ pattern[1] # "!")
  => (matched.ret <=> Surrounds(column, SubSeq(pattern, 1, Len(pattern) - 1), <<>>))

C5_Witness ==
  /\ Simplified
  /\ pattern = <<"a", "*">>
  /\ column = <<"a", "b">>
  /\ matched.ret

\* C6: in simplified mode, for a pattern P that does not begin with "!",
\* the result for "!" + P is the negation of the result for P.
C6_Negation ==
  (/\ Simplified
   /\ pattern # <<>>
   /\ pattern[1] = "!"
   /\ (Len(pattern) >= 2 => pattern[2] # "!"))
  => /\ matched.exc = ""
     /\ matched.ret = ~_matches_pattern(FALSE, Tail(pattern), column).ret

C6_Witness ==
  /\ Simplified
  /\ pattern = <<"!", "a", "*">>
  /\ column = <<"b", "a">>
  /\ matched.ret

\* C7: in simplified mode a pattern prefix*suffix with exactly one "*" (and
\* no leading "!") matches a column iff the column is prefix + s + suffix
\* for some string s.
C7_SingleWildcard ==
  (/\ Simplified
   /\ Count(pattern, "*") = 1
   /\ pattern[1] # "!")
  => LET star == CHOOSE i \in 1..Len(pattern) : pattern[i] = "*"
     IN matched.ret <=>
          Surrounds(column, SubSeq(pattern, 1, star - 1),
                    SubSeq(pattern, star + 1, Len(pattern)))

\* The strings of length at most n that the regular expression p denotes,
\* built from the last atom of p backwards.
RECURSIVE Language(_, _)
Language(p, n) ==
  IF p = <<>> THEN {<<>>}
  ELSE IF p[Len(p)] = "*"
  THEN {u \o [i \in 1..k |-> p[Len(p) - 1]] :
          u \in Language(SubSeq(p, 1, Len(p) - 2), n), k \in 0..n}
  ELSE {Append(u, p[Len(p)]) : u \in Language(SubSeq(p, 1, Len(p) - 1), n)}

\* C8: in regex mode the result is true iff some prefix of the column name
\* (starting at position 0) belongs to the language of the pattern.
C8_RegexMatchesPrefix ==
  (/\ Called
   /\ regex_enabled
   /\ matched.exc = "")
  => (matched.ret <=>
        \E k \in 0..Len(column) :
          SubSeq(column, 1, k) \in Language(pattern, Len(column)))

\* A match that leaves characters of the column unmatched.
C8_Witness ==
  /\ Called
  /\ regex_enabled
  /\ matched.ret
  /\ pattern # <<>>
  /\ column \notin Language(pattern, Len(column))

(***************************************************************************)
(* Properties of transform, checked under Spec.                            *)
(***************************************************************************)
Transformed == result.exc # "not called"

\* Does pattern pat match column col for this instance?
Matches(pat, col) == _matches_pattern(regex_enabled, pat, col)

\* The columns of the table that match at least one pattern, in table order.
Selected ==
  SelectSeq(dataframe.columns,
            LAMBDA c : \E i \in 1..Len(columns_names) :
                          Matches(columns_names[i], c) = Return(TRUE))

\* Output row k of source row r, when every source row gives n output rows.
OutRow(r, k, n) == result.table.rows[(r - 1) * n + k]

\* The source row's value of the k-th selected column.
Stacked(r, k) == dataframe.rows[r][Index(dataframe.columns, Selected[k])]

\* C1 as stated: every source row is replaced by N output rows, the k-th
\* carrying the value of the k-th selected column in the column named by
\* the feature and the values of all original columns unchanged.
C1_StackKeepsOriginalColumns ==
  result.exc = "" =>
    LET n == Len(Selected)
        out == result.table
    IN /\ n >= 1
       /\ result.parent \in Range(out.columns)
       /\ Len(out.rows) = n * Len(dataframe.rows)
       /\ \A r \in 1..Len(dataframe.rows) : \A k \in 1..n :
            /\ OutRow(r, k, n)[Index(out.columns, result.parent)] = Stacked(r, k)
            /\ \A i \in 1..Len(dataframe.columns) :
                 OutRow(r, k, n)[Index(out.columns, dataframe.columns[i])]
                   = dataframe.rows[r][i]

\* C1, amended: the same when the feature's name is not the name of a
\* column of the table; the result then has the table's columns followed
\* by the new one.
C1_StackAddsColumn ==
  (result.exc = "" /\ result.parent \notin Range(dataframe.columns)) =>
    LET n == Len(Selected)
        out == result.table
    IN /\ n >= 1
       /\ out.columns = Append(dataframe.columns, result.parent)
       /\ Len(out.rows) = n * Len(dataframe.rows)
       /\ \A r \in 1..Len(dataframe.rows) : \A k \in 1..n :
            OutRow(r, k, n) = Append(dataframe.rows[r], Stacked(r, k))

C1_Witness ==
  /\ result.exc = ""
  /\ result.parent \notin Range(dataframe.columns)
  /\ Len(Selected) >= 2
  /\ Len(dataframe.rows) >= 2

\* The k-th quoted name of an error message.
QuoteAt(msg, k) ==
  CHOOSE i \in 1..Len(msg) :
    /\ msg[i] = Quote
    /\ Count(SubSeq(msg, 1, i), Quote) = k

ListedColumns(msg) ==
  [k \in 1..(Count(msg, Quote) \div 2) |->
     SubSeq(msg, QuoteAt(msg, 2 * k - 1) + 1, QuoteAt(msg, 2 * k) - 1)]

NoColumnMatches ==
  \A i \in 1..Len(dataframe.columns) : \A j \in 1..Len(columns_names) :
    Matches(columns_names[j], dataframe.columns[i]) = Return(FALSE)

\* C2: a call on a table none of whose columns matches any pattern raises
\* the no-columns-matched error, returns no table, and the message lists
\* all the column names of the table.
C2_NoMatchRaises ==
  (Transformed /\ NoColumnMatches) =>
    /\ result.exc = "ValueError"
    /\ result.table = NoTable
    /\ ListedColumns(result.message) = dataframe.columns

C2_Witness ==
  /\ Transformed
  /\ NoColumnMatches
  /\ columns_names # <<>>
  /\ Len(dataframe.columns) >= 2

Reorderings(s) ==
  {[i \in 1..Len(s) |-> s[f[i]]] :
     f \in {g \in [1..Len(s) -> 1..Len(s)] :
              \A i, j \in 1..Len(s) : g[i] = g[j] => i = j}}

\* C3: the columns a call selects are the columns of the table that match
\* at least one pattern, in the table's order, and selecting with the
\* patterns permuted gives the same sequence.
C3_SelectionInTableOrder ==
  (Transformed /\ result.exc # "re.error") =>
    /\ result.columns = Selected
    /\ \A perm \in Reorderings(columns_names) :
         LET sel == select_columns(perm, regex_enabled, dataframe.columns)
         IN sel.exc = "" => sel.columns = result.columns

\* The first pattern selects the second selected column, not the first.
C3_Witness ==
  /\ result.exc = ""
  /\ Len(result.columns) >= 2
  /\ Len(columns_names) >= 2
  /\ Matches(columns_names[1], result.columns[2]).ret
  /\ ~Matches(columns_names[1], result.columns[1]).ret

\* C9: no step changes the patterns or the regex flag, and a call on the
\* table of the previous call, made with the binding of the previous call,
\* has the outcome of the previous call.
C9_NoHiddenState ==
  [][/\ columns_names' = columns_names
     /\ regex_enabled' = regex_enabled
     /\ (/\ Transformed
         /\ dataframe' = dataframe
         /\ result'.parent = result.parent) => result' = result]_vars

\* A call has succeeded and the instance still has the binding it used.
C9_Witness ==
  /\ result.exc = ""
  /\ result.parent = parent
  /\ Len(dataframe.rows) >= 1

\* C10 as stated, for simplified patterns and tables that have columns: a
\* call on an unbound instance fails with the unbound-feature error,
\* whether or not a column of the table matches.
C10_UnboundAlwaysReported ==
  (/\ Transformed
   /\ result.parent = None
   /\ columns_names # <<>>
   /\ dataframe.columns # <<>>
   /\ ~regex_enabled) => result.exc = "UnboundFeatureError"

\* C10, amended: a call on an unbound instance never returns a table; it
\* fails with the unbound-feature error exactly when the selection ends
\* with at least one column, with the no-columns-matched error when the
\* selection ends empty, and with the pattern error otherwise.
C10_UnboundAfterSelection ==
  (Transformed /\ result.parent = None) =>
    LET sel == select_columns(columns_names, regex_enabled, dataframe.columns)
    IN /\ result.table = NoTable
       /\ result.exc # ""
       /\ (sel.exc = "" /\ sel.columns # <<>>) <=> result.exc = "UnboundFeatureError"
       /\ (sel.exc = "" /\ sel.columns = <<>>) <=> result.exc = "ValueError"
       /\ sel.exc # "" <=> result.exc = sel.exc

C10_Witness ==
  /\ result.parent = None
  /\ result.exc = "UnboundFeatureError"
  /\ Len(result.columns) >= 1

====
